---- MODULE Spec2Model ----
(***************************************************************************)
(* Model of the embedding index classes Cohere_Embedding                   *)
(* (src/Cohere_Embedding.py) and OpenAI_Embedding (src/openai_embedding.py).*)
(* One index name is modelled; its three artifacts are the files           *)
(*   <dir>/<name>.faiss, <dir>/chunks/<name>.json, <dir>/embeddings/<name>.npy *)
(* A file is <<>> when it does not exist and <<content>> when it does.      *)
(* Timestamps (created_at, updated_at) and the model name carried by the    *)
(* metadata are not modelled: no operation reads them back.                 *)
(* The module also models Cohere_Chatbot (src/cohere.py): its in-memory     *)
(* history and the conversation files of its folder.                        *)
(***************************************************************************)
EXTENDS Integers, Sequences, FiniteSets, TLC

\* ---- bounds of the model ------------------------------------------------
\* texts per call and vectors per provider reply
MaxBatch == 2
\* rows / chunks an index is allowed to grow to
MaxRows == 3
\* largest k passed to search
MaxK == 2

\* messages a chatbot history is allowed to grow to (the system message included)
MaxHistory == 4
\* conversations of one chatbot
MaxConversations == 2

\* ---- input domains ------------------------------------------------------
Dims == {1, 2}
Component == {0, 1}
Providers == {"cohere", "openai"}
TieOrders == {"lower_id_first", "higher_id_first"}

\* the vectors of length d the provider may return: they differ in the last
\* component
VectorOfDim(d, c) == [i \in 1..d |-> IF i = d THEN c ELSE 0]
Vectors == {VectorOfDim(d, c) : d \in Dims, c \in Component}

\* a 2-D float32 array is the sequence of its rows; the empty sequence is
\* np.array([]), whose shape is (0,). The provider's batches alternate between
\* the two vectors of a dimension, so equal and unequal rows both get stored.
Arrays == {[i \in 1..m |-> VectorOfDim(d, (i + 1) % 2)] : d \in Dims, m \in 0..MaxBatch}

\* the texts of a call are pairwise different, so their order is observable;
\* the code never inspects a text
Text(i) == "t" \o ToString(i)
TextLists == {[i \in 1..n |-> Text(i)] : n \in 0..MaxBatch}

\* what the embedding endpoint answers: a status and the vectors it returns
Replies == {[status |-> "error", embeddings |-> <<>>]}
             \cup {[status |-> "ok", embeddings |-> a] : a \in Arrays}
QueryReplies == {[status |-> "error", embeddings |-> <<>>],
                 [status |-> "ok", embeddings |-> <<>>]}
                  \cup {[status |-> "ok", embeddings |-> <<v>>] : v \in Vectors}

\* the exception faiss.read_index raises for a missing file is decided by the
\* faiss build, not by this repository
ReadIndexMissingErrors == {"FileNotFoundError", "RuntimeError"}

VARIABLES
  provider,       \* which class is instantiated
  embedding_dim,  \* Cohere_Embedding.embedding_dim (unused by OpenAI_Embedding)
  tieOrder,       \* order in which the faiss build returns equidistant rows
  faissFile, jsonFile, npyFile,   \* the three artifacts of the index name
  ret,            \* outcome of the last operation: [op, err, value]
  pc, loc,        \* per caller: the step it is at and its local variables
  history,          \* Cohere_Chatbot.history
  conversation_id,  \* Cohere_Chatbot.conversation_id
  conversations,    \* the files conversation_<id>.json of the chatbot's folder
  chatRet           \* outcome of the chatbot's last operation: [op, err, value]

vars == <<provider, embedding_dim, tieOrder, faissFile, jsonFile, npyFile, ret, pc, loc,
          history, conversation_id, conversations, chatRet>>
config == <<provider, embedding_dim, tieOrder>>
chatbot == <<history, conversation_id, conversations, chatRet>>
procs == <<pc, loc>>
files == <<faissFile, jsonFile, npyFile>>

Absent == <<>>
Exists(f) == f # Absent

\* ---- numeric helpers ----------------------------------------------------
RECURSIVE SumSq(_, _, _)
SumSq(q, v, i) ==
  IF i = 0 THEN 0 ELSE (q[i] - v[i]) * (q[i] - v[i]) + SumSq(q, v, i - 1)

\* squared Euclidean distance, the metric of IndexFlatL2
L2sqr(q, v) == SumSq(q, v, Len(q))

\* the distance faiss reports for a result slot it could not fill (the largest
\* float32, 3.4028235e38), represented by the largest model integer
FltMax == 2147483647

\* ---- serialisation of the three artifacts -------------------------------
Flatten(xs, d) ==
  [i \in 1..(Len(xs) * d) |-> xs[((i - 1) \div d) + 1][((i - 1) % d) + 1]]

Unflatten(data, n, d) ==
  [r \in 1..n |-> [c \in 1..d |-> data[(r - 1) * d + c]]]

\* faiss.write_index / faiss.read_index of an IndexFlatL2
WriteIndex(index) ==
  [d |-> index.d, ntotal |-> Len(index.xb), codes |-> Flatten(index.xb, index.d)]

ReadIndex(bytes) ==
  [d |-> bytes.d, xb |-> Unflatten(bytes.codes, bytes.ntotal, bytes.d)]

\* np.save / np.load of a 2-D array
NpSave(arr) ==
  [shape |-> <<Len(arr), Len(arr[1])>>, data |-> Flatten(arr, Len(arr[1]))]

NpLoad(bytes) == Unflatten(bytes.data, bytes.shape[1], bytes.shape[2])

\* json.dump / json.load: numbers are written as decimal text and parsed back
ParseInt(s) == CHOOSE n \in 0..(MaxRows + MaxBatch) : ToString(n) = s

JsonDumpChunk(c) ==
  <<<<"id", ToString(c.id)>>, <<"text", c.text>>,
    <<"embedding_index", ToString(c.embedding_index)>>>>

JsonLoadChunk(o) ==
  [id |-> ParseInt(o[1][2]), text |-> o[2][2], embedding_index |-> ParseInt(o[3][2])]

JsonDump(meta) ==
  [total_chunks |-> ToString(meta.total_chunks),
   embedding_dim |-> [i \in 1..Len(meta.embedding_dim) |-> ToString(meta.embedding_dim[i])],
   chunks |-> [i \in 1..Len(meta.chunks) |-> JsonDumpChunk(meta.chunks[i])]]

JsonLoad(text) ==
  [total_chunks |-> ParseInt(text.total_chunks),
   embedding_dim |-> [i \in 1..Len(text.embedding_dim) |-> ParseInt(text.embedding_dim[i])],
   chunks |-> [i \in 1..Len(text.chunks) |-> JsonLoadChunk(text.chunks[i])]]

\* ---- the in-memory objects ----------------------------------------------
Fail(e) == [err |-> e, index |-> <<>>, meta |-> <<>>, emb |-> <<>>]
Ok(index, meta, emb) == [err |-> "none", index |-> index, meta |-> meta, emb |-> emb]

\* faiss.IndexFlatL2(d)
IndexFlatL2(d) == [d |-> d, xb |-> <<>>]

\* an index.add that does not compare the width of x with the index's d
IndexAddErrorNoDimCheck(index, x) ==
  IF Len(x) = 0 THEN "ValueError" ELSE "none"

\* index.add(x): the Python wrapper unpacks n, d = x.shape and asserts d == self.d
IndexAddError(index, x) ==
  IF Len(x) = 0 THEN "ValueError"
  ELSE IF Len(x[1]) # index.d THEN "AssertionError"
  ELSE "none"

IndexAdd(index, x) == [index EXCEPT !.xb = index.xb \o x]

\* chunks numbered from the end of the batch backwards
NewChunksReversed(texts, start_id) ==
  [i \in 1..Len(texts) |->
     [id |-> start_id + (i - 1), text |-> texts[Len(texts) + 1 - i],
      embedding_index |-> start_id + (i - 1)]]

\* the "chunks" list built for texts, ids starting at start_id
NewChunks(texts, start_id) ==
  [i \in 1..Len(texts) |->
     [id |-> start_id + (i - 1), text |-> texts[i], embedding_index |-> start_id + (i - 1)]]

\* the optional "embedding_dim" key of the metadata: OpenAI_Embedding writes
\* it, Cohere_Embedding does not
DimKey(prov, d) == IF prov = "openai" THEN <<d>> ELSE <<>>

\* dimension given to the IndexFlatL2 that is built over the array x
BuildDim(prov, edim, x) == IF prov = "openai" THEN Len(x[1]) ELSE edim

\* create_faiss_index up to (not including) save_index
CreateOutcome(prov, edim, texts, reply) ==
  IF reply.status # "ok" THEN Fail("Exception")
  ELSE LET embeddings == reply.embeddings IN
    IF prov = "openai" /\ Len(embeddings) = 0 THEN Fail("IndexError")
    ELSE LET index == IndexFlatL2(BuildDim(prov, edim, embeddings)) IN
      IF IndexAddError(index, embeddings) # "none"
      THEN Fail(IndexAddError(index, embeddings))
      ELSE Ok(IndexAdd(index, embeddings),
              [total_chunks |-> Len(texts),
               embedding_dim |-> DimKey(prov, index.d),
               chunks |-> NewChunks(texts, 0)],
              embeddings)

\* load_index over the three files; e is what read_index raises when the
\* .faiss file is missing
LoadOutcome(ff, jf, nf, e) ==
  IF ~Exists(ff) THEN Fail(e)
  ELSE IF ~Exists(jf) THEN Fail("FileNotFoundError")
  ELSE IF ~Exists(nf) THEN Fail("FileNotFoundError")
  ELSE Ok(ReadIndex(ff[1]), JsonLoad(jf[1]), NpLoad(nf[1]))

\* the errors load_index can meet at its first read: only a missing .faiss
\* file leaves a choice
LoadErrors(ff) == IF Exists(ff) THEN {"none"} ELSE ReadIndexMissingErrors

\* a vstack that does not compare the column counts
VStackErrorNoColumnCheck(embeddings, new_embeddings) ==
  IF Len(new_embeddings) = 0 THEN "ValueError" ELSE "none"

\* np.vstack([embeddings, new_embeddings]): new_embeddings of shape (0,) is
\* promoted to (1, 0); the column counts must agree
VStackError(embeddings, new_embeddings) ==
  IF Len(new_embeddings) = 0 THEN "ValueError"
  ELSE IF Len(new_embeddings[1]) # Len(embeddings[1]) THEN "ValueError"
  ELSE "none"

\* an update_index that numbers the new chunks like create_faiss_index does,
\* from 0
UpdateOutcomeIdsFromZero(prov, edim, loaded, new_texts, reply) ==
  IF reply.status # "ok" THEN Fail("Exception")
  ELSE LET new_embeddings == reply.embeddings IN
    IF VStackError(loaded.emb, new_embeddings) # "none"
    THEN Fail(VStackError(loaded.emb, new_embeddings))
    ELSE LET embeddings == loaded.emb \o new_embeddings
             index == IndexFlatL2(BuildDim(prov, edim, embeddings))
             chunks == loaded.meta.chunks \o NewChunks(new_texts, 0)
         IN IF IndexAddError(index, embeddings) # "none"
            THEN Fail(IndexAddError(index, embeddings))
            ELSE Ok(IndexAdd(index, embeddings),
                    [total_chunks |-> Len(chunks),
                     embedding_dim |-> DimKey(prov, index.d),
                     chunks |-> chunks],
                    embeddings)

\* update_index after a successful load_index, up to save_index
UpdateOutcome(prov, edim, loaded, new_texts, reply) ==
  IF reply.status # "ok" THEN Fail("Exception")
  ELSE LET new_embeddings == reply.embeddings IN
    IF VStackError(loaded.emb, new_embeddings) # "none"
    THEN Fail(VStackError(loaded.emb, new_embeddings))
    ELSE LET embeddings == loaded.emb \o new_embeddings
             index == IndexFlatL2(BuildDim(prov, edim, embeddings))
             start_id == Len(loaded.meta.chunks)
             chunks == loaded.meta.chunks \o NewChunks(new_texts, start_id)
         IN IF IndexAddError(index, embeddings) # "none"
            THEN Fail(IndexAddError(index, embeddings))
            ELSE Ok(IndexAdd(index, embeddings),
                    [total_chunks |-> Len(chunks),
                     embedding_dim |-> DimKey(prov, index.d),
                     chunks |-> chunks],
                    embeddings)

\* ---- search --------------------------------------------------------------
\* row j is returned before row i (rows are 1-based here, labels 0-based)
Precedes(order, q, xb, j, i) ==
  \/ L2sqr(q, xb[j]) < L2sqr(q, xb[i])
  \/ /\ L2sqr(q, xb[j]) = L2sqr(q, xb[i])
     /\ IF order = "lower_id_first" THEN j < i ELSE j > i

RowAtPosition(order, q, xb, p) ==
  CHOOSE i \in 1..Len(xb) :
    Cardinality({j \in 1..Len(xb) : Precedes(order, q, xb, j, i)}) = p - 1

\* index.search(q, k) of IndexFlatL2: k labels and k distances, nearest
\* first; the slots past ntotal hold label -1 and the largest float
FaissSearch(order, index, q, k) ==
  [labels |-> [p \in 1..k |->
                 IF p <= Len(index.xb)
                 THEN RowAtPosition(order, q, index.xb, p) - 1 ELSE -1],
   distances |-> [p \in 1..k |->
                 IF p <= Len(index.xb)
                 THEN L2sqr(q, index.xb[RowAtPosition(order, q, index.xb, p)])
                 ELSE FltMax]]

\* list[idx] of Python: a negative idx counts from the end
PyIndexOk(list, idx) == idx >= -Len(list) /\ idx < Len(list)
PyIndex(list, idx) == IF idx >= 0 THEN list[idx + 1] ELSE list[Len(list) + idx + 1]

\* 1 / (1 + float(dist)) as the pair <<numerator, denominator>>; adding 1 to
\* the largest float leaves it unchanged
Score(dist) == <<1, IF dist = FltMax THEN FltMax ELSE 1 + dist>>

SearchResults(chunks, found) ==
  [p \in 1..Len(found.labels) |->
     LET chunk == PyIndex(chunks, found.labels[p]) IN
       [chunk_id |-> chunk.id, text |-> chunk.text,
        distance |-> found.distances[p], score |-> Score(found.distances[p]),
        rank |-> p]]

\* search after load_index: [err, results]
SearchOutcome(order, loaded, reply, k) ==
  IF reply.status # "ok" THEN [err |-> "Exception", results |-> <<>>]
  ELSE IF Len(reply.embeddings) = 0 THEN [err |-> "IndexError", results |-> <<>>]
  ELSE LET query_embedding == reply.embeddings[1] IN
    IF Len(query_embedding) # loaded.index.d
    THEN [err |-> "AssertionError", results |-> <<>>]
    ELSE LET found == FaissSearch(order, loaded.index, query_embedding, k) IN
      IF \E p \in 1..k : ~PyIndexOk(loaded.meta.chunks, found.labels[p])
      THEN [err |-> "IndexError", results |-> <<>>]
      ELSE [err |-> "none", results |-> SearchResults(loaded.meta.chunks, found)]

\* the operations that write the index
Mutating == {"create", "update", "update_created"}

\* ---- callers ----------------------------------------------------------------
Procs == {"p1", "p2"}
NoLocals == [op |-> "none", loaded |-> <<>>, out |-> <<>>]
NothingLoaded == [index |-> <<>>, meta |-> <<>>, emb |-> <<>>]

\* ---- the operations, each as one step -------------------------------------
Returned(op, err, value) == [op |-> op, err |-> err, value |-> value]

\* the shape of the array the provider returned, (0,) for an empty one
Shape(arr) == IF Len(arr) = 0 THEN <<0>> ELSE <<Len(arr), Len(arr[1])>>

\* outcome of create_faiss_index / update_index, with the shape of the batch
\* the provider answered with
Mutated(op, err, value, reply) ==
  [op |-> op, err |-> err, value |-> value, shape |-> Shape(reply.embeddings)]
Saved(out) == [index |-> out.index, meta |-> out.meta, emb |-> out.emb]

\* save_index that leaves the embeddings file as it was
SaveIndexStaleEmbeddings(out) ==
  /\ faissFile' = <<WriteIndex(out.index)>>
  /\ jsonFile' = <<JsonDump(out.meta)>>
  /\ npyFile' = IF Exists(npyFile) THEN npyFile ELSE <<NpSave(out.emb)>>

\* save_index: the three writes
SaveIndex(out) ==
  /\ faissFile' = <<WriteIndex(out.index)>>
  /\ jsonFile' = <<JsonDump(out.meta)>>
  /\ npyFile' = <<NpSave(out.emb)>>

CreateEffect(op, texts, reply) ==
  LET out == CreateOutcome(provider, embedding_dim, texts, reply) IN
    IF out.err = "none"
    THEN SaveIndex(out) /\ ret' = Mutated(op, "none", Saved(out), reply)
    ELSE UNCHANGED files /\ ret' = Mutated(op, out.err, <<>>, reply)

CreateFaissIndex(texts, reply) ==
  /\ CreateEffect("create", texts, reply)
  /\ UNCHANGED <<config, chatbot, procs>>

\* the model's bound on the size of the index
WithinRows(loaded, new_texts, reply) ==
  /\ Len(loaded.meta.chunks) + Len(new_texts) <= MaxRows
  /\ Len(loaded.emb) + Len(reply.embeddings) <= MaxRows

\* update_index that lets the FileNotFoundError of load_index propagate
UpdateIndexNoCreate(new_texts, reply) ==
  \E e \in LoadErrors(faissFile) :
  LET loaded == LoadOutcome(faissFile, jsonFile, npyFile, e) IN
    /\ IF loaded.err # "none"
       THEN UNCHANGED files /\ ret' = Mutated("update", loaded.err, <<>>, reply)
       ELSE /\ WithinRows(loaded, new_texts, reply)
            /\ LET out == UpdateOutcome(provider, embedding_dim, loaded, new_texts, reply) IN
                 IF out.err = "none"
                 THEN SaveIndex(out) /\ ret' = Mutated("update", "none", Saved(out), reply)
                 ELSE UNCHANGED files /\ ret' = Mutated("update", out.err, <<>>, reply)
    /\ UNCHANGED <<config, chatbot, procs>>

\* an update_index whose except clause also catches the provider's exception
\* and, as for a missing index, goes on to create_faiss_index, which asks the
\* provider again
UpdateIndexRetriesAsCreate(new_texts, reply) ==
  \E e \in LoadErrors(faissFile), again \in Replies :
  LET loaded == LoadOutcome(faissFile, jsonFile, npyFile, e) IN
    /\ IF loaded.err = "FileNotFoundError"
       THEN CreateEffect("update_created", new_texts, reply)
       ELSE IF loaded.err # "none"
       THEN UNCHANGED files /\ ret' = Mutated("update", loaded.err, <<>>, reply)
       ELSE /\ WithinRows(loaded, new_texts, reply)
            /\ LET out == UpdateOutcome(provider, embedding_dim, loaded, new_texts, reply) IN
                 IF out.err = "none"
                 THEN SaveIndex(out) /\ ret' = Mutated("update", "none", Saved(out), reply)
                 ELSE IF reply.status # "ok"
                 THEN CreateEffect("update", new_texts, again)
                 ELSE UNCHANGED files /\ ret' = Mutated("update", out.err, <<>>, reply)
    /\ UNCHANGED <<config, chatbot, procs>>

UpdateIndex(new_texts, reply) ==
  \E e \in LoadErrors(faissFile) :
  LET loaded == LoadOutcome(faissFile, jsonFile, npyFile, e) IN
    /\ IF loaded.err = "FileNotFoundError"
       THEN CreateEffect("update_created", new_texts, reply)
       ELSE IF loaded.err # "none"
       THEN UNCHANGED files /\ ret' = Mutated("update", loaded.err, <<>>, reply)
       ELSE /\ WithinRows(loaded, new_texts, reply)
            /\ LET out == UpdateOutcome(provider, embedding_dim, loaded, new_texts, reply) IN
                 IF out.err = "none"
                 THEN SaveIndex(out) /\ ret' = Mutated("update", "none", Saved(out), reply)
                 ELSE UNCHANGED files /\ ret' = Mutated("update", out.err, <<>>, reply)
    /\ UNCHANGED <<config, chatbot, procs>>

LoadIndex ==
  \E e \in LoadErrors(faissFile) :
  LET loaded == LoadOutcome(faissFile, jsonFile, npyFile, e) IN
    /\ ret' = Returned("load", loaded.err,
                       IF loaded.err = "none" THEN Saved(loaded) ELSE <<>>)
    /\ UNCHANGED <<config, chatbot, procs, files>>

Search(reply, k) ==
  \E e \in LoadErrors(faissFile) :
  LET loaded == LoadOutcome(faissFile, jsonFile, npyFile, e) IN
    /\ IF loaded.err # "none"
       THEN ret' = [op |-> "search", err |-> loaded.err, value |-> <<>>,
                    query |-> <<>>, k |-> k]
       ELSE LET out == SearchOutcome(tieOrder, loaded, reply, k) IN
              ret' = [op |-> "search", err |-> out.err, value |-> out.results,
                      query |-> reply.embeddings, k |-> k]
    /\ UNCHANGED <<config, chatbot, procs, files>>

\* ---- Cohere_Chatbot (src/cohere.py) -------------------------------------
\* uuid4 values; the one drawn at construction is called 1
ConversationIds == 1..MaxConversations
UserTexts == {"hello"}
system_prompt == "You are a helpful assistant."

\* the lines of a streamed response: a content-delta event carrying text, any
\* other event, a line that is not JSON, and a JSON object without a "type" key
\* (the body of an error answer)
Lines ==
  {[kind |-> "content-delta", text |-> t] : t \in {"a"}}
    \cup {[kind |-> k, text |-> ""] : k \in {"other-event", "not-json", "no-type"}}

\* the body of a response that is not streamed: with message.content[0].text,
\* or without a "message" key
Bodies == {[kind |-> "message", text |-> "a"], [kind |-> "no-message", text |-> ""]}

\* what llm._make_request does: it raises (requests.post fails), or returns a
\* response that is read line by line (llm.stream) or as one JSON body
Responses ==
  {[mode |-> "raises", lines |-> <<>>]}
    \cup {[mode |-> "stream", lines |-> <<>>]}
    \cup {[mode |-> "stream", lines |-> <<l>>] : l \in Lines}
    \cup {[mode |-> "stream", lines |-> <<[kind |-> "content-delta", text |-> "a"], l>>] :
            l \in Lines}
    \cup {[mode |-> "json", lines |-> <<b>>] : b \in Bodies}

SystemMessage == [role |-> "system", content |-> system_prompt]
UserMessage(message) == [role |-> "user", content |-> [type |-> "text", text |-> message]]
AssistantMessage(full_response) ==
  [role |-> "assistant", content |-> [type |-> "text", text |-> full_response]]

\* the loop over response.iter_lines(): [err, text] after the first n lines
RECURSIVE CollectStream(_, _)
CollectStream(lines, n) ==
  IF n = 0 THEN [err |-> "none", text |-> ""]
  ELSE LET sofar == CollectStream(lines, n - 1)
           line == lines[n]
       IN IF sofar.err # "none" THEN sofar
          ELSE IF line.kind = "not-json" THEN sofar
          ELSE IF line.kind = "no-type" THEN [err |-> "KeyError", text |-> ""]
          ELSE IF line.kind = "content-delta"
          THEN [err |-> "none", text |-> sofar.text \o line.text]
          ELSE sofar

\* full_response of __call__, or the exception that ends it
FullResponse(response) ==
  IF response.mode = "raises" THEN [err |-> "ConnectionError", text |-> ""]
  ELSE IF response.mode = "stream" THEN CollectStream(response.lines, Len(response.lines))
  ELSE IF response.lines[1].kind = "message"
  THEN [err |-> "none", text |-> response.lines[1].text]
  ELSE [err |-> "KeyError", text |-> ""]

\* json.dump / json.load of a message and of conversation_data (the keys that
\* load_conversation reads back)
JsonDumpMessage(m) ==
  IF m.role = "system"
  THEN <<<<"role", m.role>>, <<"content", m.content>>>>
  ELSE <<<<"role", m.role>>,
         <<"content", <<<<"type", m.content.type>>, <<"text", m.content.text>>>>>>>>

JsonLoadMessage(o) ==
  IF o[1][2] = "system"
  THEN [role |-> o[1][2], content |-> o[2][2]]
  ELSE [role |-> o[1][2], content |-> [type |-> o[2][2][1][2], text |-> o[2][2][2][2]]]

JsonDumpConversation(id, hist) ==
  [conversation_id |-> id,
   system_prompt |-> system_prompt,
   history |-> [i \in 1..Len(hist) |-> JsonDumpMessage(hist[i])]]

JsonLoadConversation(text) ==
  [conversation_id |-> text.conversation_id,
   history |-> [i \in 1..Len(text.history) |-> JsonLoadMessage(text.history[i])]]

ChatReturned(op, err, value) == [op |-> op, err |-> err, value |-> value]

\* _save_conversation of history hist under conversation id
SaveConversation(id, hist) ==
  conversations' = [conversations EXCEPT ![id] = <<JsonDumpConversation(id, hist)>>]

\* uuid4(): an id no conversation carries yet
NewUuids == {id \in ConversationIds : ~Exists(conversations[id])}

\* _initialize_conversation under the id the chatbot already has
StartNewConversationSameId ==
  /\ NewUuids # {}
  /\ history' = <<SystemMessage>>
  /\ SaveConversation(conversation_id, history')
  /\ chatRet' = ChatReturned("start_new", "none", conversation_id)
  /\ UNCHANGED <<conversation_id, config, procs, files, ret>>

\* start_new_conversation: _initialize_conversation draws a new id, resets the
\* history and saves it
StartNewConversation ==
  \E id \in NewUuids :
    /\ conversation_id' = id
    /\ history' = <<SystemMessage>>
    /\ SaveConversation(id, history')
    /\ chatRet' = ChatReturned("start_new", "none", id)
    /\ UNCHANGED <<config, procs, files, ret>>

LoadConversation(id) ==
  /\ IF Exists(conversations[id])
     THEN LET data == JsonLoadConversation(conversations[id][1]) IN
            /\ conversation_id' = data.conversation_id
            /\ history' = data.history
            /\ chatRet' = ChatReturned("load", "none", id)
     ELSE /\ UNCHANGED <<conversation_id, history>>
          /\ chatRet' = ChatReturned("load", "FileNotFoundError", id)
  /\ UNCHANGED <<conversations, config, procs, files, ret>>

\* __call__: _prepare_messages appends the user message to self.history, then
\* the request is made and read; the assistant message is appended and the
\* conversation saved only when nothing raised
ChatCall(message, response) ==
  /\ Len(history) + 2 <= MaxHistory
  /\ LET messages == Append(history, UserMessage(message))
         full == FullResponse(response)
     IN IF full.err # "none"
        THEN /\ history' = messages
             /\ UNCHANGED conversations
             /\ chatRet' = ChatReturned("call", full.err, "")
        ELSE /\ history' = Append(messages, AssistantMessage(full.text))
             /\ SaveConversation(conversation_id, history')
             /\ chatRet' = ChatReturned("call", "none", full.text)
  /\ UNCHANGED <<conversation_id, config, procs, files, ret>>

Init ==
  /\ provider \in Providers
  /\ embedding_dim \in IF provider = "cohere" THEN Dims ELSE {0}
  /\ tieOrder \in TieOrders
  /\ faissFile = Absent /\ jsonFile = Absent /\ npyFile = Absent
  /\ ret = Returned("init", "none", <<>>)
  /\ pc = [p \in Procs |-> "idle"]
  /\ loc = [p \in Procs |-> NoLocals]
  /\ conversation_id = 1
  /\ history = <<SystemMessage>>
  /\ conversations = [id \in ConversationIds |->
                        IF id = 1 THEN <<JsonDumpConversation(1, <<SystemMessage>>)>>
                        ELSE Absent]
  /\ chatRet = ChatReturned("init", "none", 1)

\* the operations that build, extend and read back the index
NextIndex ==
  \/ \E texts \in TextLists, reply \in Replies : CreateFaissIndex(texts, reply)
  \/ \E texts \in TextLists, reply \in Replies : UpdateIndex(texts, reply)
  \/ LoadIndex

Next ==
  \/ NextIndex
  \/ \E reply \in QueryReplies, k \in 1..MaxK : Search(reply, k)

\* all four operations, called one after the other
Spec == Init /\ [][Next]_vars

\* the same without search, which writes nothing
SpecIndex == Init /\ [][NextIndex]_vars

\* calls in which the provider keeps its contract on the number of vectors: it
\* fails, or returns one vector per text (of any dimension)
HonestCalls ==
  {c \in TextLists \X Replies :
     c[2].status = "error" \/ Len(c[2].embeddings) = Len(c[1])}

\* the four operations over a provider that fails or returns one vector per
\* text
NextHonest ==
  \/ \E c \in HonestCalls : CreateFaissIndex(c[1], c[2])
  \/ \E c \in HonestCalls : UpdateIndex(c[1], c[2])
  \/ LoadIndex
  \/ \E reply \in QueryReplies, k \in 1..MaxK : Search(reply, k)

SpecHonest == Init /\ [][NextHonest]_vars

\* the operations of one Cohere_Chatbot
NextChat ==
  \/ \E message \in UserTexts, response \in Responses : ChatCall(message, response)
  \/ StartNewConversation
  \/ \E id \in ConversationIds : LoadConversation(id)

SpecChat == Init /\ [][NextChat]_vars

\* ---- the operations step by step, for callers that run at the same time ----
\* Between two accesses to the files a caller only computes on its own
\* variables; the call to the provider is the step "embed".
Call(p, op) ==
  /\ pc[p] = "idle"
  /\ pc' = [pc EXCEPT ![p] = IF op = "create" THEN "embed" ELSE "load_faiss"]
  /\ loc' = [loc EXCEPT ![p] = [op |-> op, loaded |-> NothingLoaded, out |-> <<>>]]
  /\ UNCHANGED <<config, chatbot, files, ret>>

\* the operation of p ends and hands back r
Finish(p, r) ==
  /\ ret' = r
  /\ pc' = [pc EXCEPT ![p] = "idle"]
  /\ loc' = [loc EXCEPT ![p] = NoLocals]

\* load_index raised e in the operation of p: update_index catches
\* FileNotFoundError and goes on to create_faiss_index
LoadRaised(p, e) ==
  IF loc[p].op = "update" /\ e = "FileNotFoundError"
  THEN /\ pc' = [pc EXCEPT ![p] = "embed"]
       /\ loc' = [loc EXCEPT ![p].op = "update_created"]
       /\ ret' = ret
  ELSE Finish(p, IF loc[p].op = "search"
                 THEN [op |-> "search", err |-> e, value |-> <<>>, query |-> <<>>, k |-> 0]
                 ELSE Returned(loc[p].op, e, <<>>))

LoadFaiss(p) ==
  /\ pc[p] = "load_faiss"
  /\ IF Exists(faissFile)
     THEN /\ loc' = [loc EXCEPT ![p].loaded.index = ReadIndex(faissFile[1])]
          /\ pc' = [pc EXCEPT ![p] = "load_json"]
          /\ ret' = ret
     ELSE \E e \in ReadIndexMissingErrors : LoadRaised(p, e)
  /\ UNCHANGED <<config, chatbot, files>>

LoadJson(p) ==
  /\ pc[p] = "load_json"
  /\ IF Exists(jsonFile)
     THEN /\ loc' = [loc EXCEPT ![p].loaded.meta = JsonLoad(jsonFile[1])]
          /\ pc' = [pc EXCEPT ![p] = "load_npy"]
          /\ ret' = ret
     ELSE LoadRaised(p, "FileNotFoundError")
  /\ UNCHANGED <<config, chatbot, files>>

LoadNpy(p) ==
  /\ pc[p] = "load_npy"
  /\ IF Exists(npyFile)
     THEN LET loaded == [loc[p].loaded EXCEPT !.emb = NpLoad(npyFile[1])] IN
            IF loc[p].op = "load"
            THEN Finish(p, Returned("load", "none", loaded))
            ELSE /\ loc' = [loc EXCEPT ![p].loaded = loaded]
                 /\ pc' = [pc EXCEPT ![p] = "embed"]
                 /\ ret' = ret
     ELSE LoadRaised(p, "FileNotFoundError")
  /\ UNCHANGED <<config, chatbot, files>>

\* get_embedding and what create_faiss_index / update_index do with the batch
\* before save_index
Embed(p, texts, reply) ==
  /\ pc[p] = "embed"
  /\ loc[p].op \in Mutating
  /\ loc[p].op = "update" => WithinRows(loc[p].loaded, texts, reply)
  /\ LET out == IF loc[p].op = "update"
                THEN UpdateOutcome(provider, embedding_dim, loc[p].loaded, texts, reply)
                ELSE CreateOutcome(provider, embedding_dim, texts, reply)
     IN IF out.err = "none"
        THEN /\ loc' = [loc EXCEPT ![p].out = [saved |-> Saved(out), reply |-> reply]]
             /\ pc' = [pc EXCEPT ![p] = "save_faiss"]
             /\ ret' = ret
        ELSE Finish(p, Mutated(loc[p].op, out.err, <<>>, reply))
  /\ UNCHANGED <<config, chatbot, files>>

\* get_embedding of the query and the rest of search
EmbedQuery(p, reply, k) ==
  /\ pc[p] = "embed"
  /\ loc[p].op = "search"
  /\ LET out == SearchOutcome(tieOrder, loc[p].loaded, reply, k) IN
       Finish(p, [op |-> "search", err |-> out.err, value |-> out.results,
                  query |-> reply.embeddings, k |-> k])
  /\ UNCHANGED <<config, chatbot, files>>

\* the three writes of save_index
SaveFaiss(p) ==
  /\ pc[p] = "save_faiss"
  /\ faissFile' = <<WriteIndex(loc[p].out.saved.index)>>
  /\ pc' = [pc EXCEPT ![p] = "save_json"]
  /\ UNCHANGED <<config, chatbot, jsonFile, npyFile, ret, loc>>

SaveJson(p) ==
  /\ pc[p] = "save_json"
  /\ jsonFile' = <<JsonDump(loc[p].out.saved.meta)>>
  /\ pc' = [pc EXCEPT ![p] = "save_npy"]
  /\ UNCHANGED <<config, chatbot, faissFile, npyFile, ret, loc>>

SaveNpy(p) ==
  /\ pc[p] = "save_npy"
  /\ npyFile' = <<NpSave(loc[p].out.saved.emb)>>
  /\ Finish(p, Mutated(loc[p].op, "none", loc[p].out.saved, loc[p].out.reply))
  /\ UNCHANGED <<config, chatbot, faissFile, jsonFile>>

\* the steps every operation is made of
Steps(p) ==
  \/ LoadFaiss(p)
  \/ LoadJson(p)
  \/ LoadNpy(p)
  \/ \E c \in HonestCalls : Embed(p, c[1], c[2])
  \/ \E reply \in QueryReplies, k \in 1..MaxK : EmbedQuery(p, reply, k)
  \/ SaveFaiss(p)
  \/ SaveJson(p)
  \/ SaveNpy(p)

\* one caller that keeps calling update_index (the first call creates the
\* index) while another one reads it
Writer == "p1"
Reader == "p2"

NextConc ==
  \/ Call(Writer, "update")
  \/ \E op \in {"search", "load"} : Call(Reader, op)
  \/ \E p \in Procs : Steps(p)

SpecConc == Init /\ [][NextConc]_vars

\* the steps of update_index
UpdateSteps(p) ==
  \/ LoadFaiss(p)
  \/ LoadJson(p)
  \/ LoadNpy(p)
  \/ \E c \in HonestCalls : Embed(p, c[1], c[2])
  \/ SaveFaiss(p)
  \/ SaveJson(p)
  \/ SaveNpy(p)

\* two callers that keep calling update_index on the same name
NextWriters ==
  \/ \E p \in Procs : Call(p, "update")
  \/ \E p \in Procs : UpdateSteps(p)

SpecWriters == Init /\ [][NextWriters]_vars

\* ---- a process killed inside save_index ------------------------------------
\* the writes of save_index that completed before the process died
SavePartial(out, written) ==
  /\ faissFile' = <<WriteIndex(out.index)>>
  /\ jsonFile' = IF written >= 2 THEN <<JsonDump(out.meta)>> ELSE jsonFile
  /\ npyFile' = npyFile

Killed(during, written) ==
  [op |-> "crash", err |-> "killed", value |-> <<>>, during |-> during, written |-> written]

CrashInCreate(texts, reply, written) ==
  LET out == CreateOutcome(provider, embedding_dim, texts, reply) IN
    /\ out.err = "none"
    /\ SavePartial(out, written)
    /\ ret' = Killed("create", written)
    /\ UNCHANGED <<config, chatbot, procs>>

CrashInUpdate(new_texts, reply, written) ==
  LET loaded == LoadOutcome(faissFile, jsonFile, npyFile, "RuntimeError") IN
    /\ loaded.err = "none"
    /\ WithinRows(loaded, new_texts, reply)
    /\ LET out == UpdateOutcome(provider, embedding_dim, loaded, new_texts, reply) IN
         /\ out.err = "none"
         /\ SavePartial(out, written)
    /\ ret' = Killed("update", written)
    /\ UNCHANGED <<config, chatbot, procs>>

NextCrash ==
  \/ \E c \in HonestCalls : CreateFaissIndex(c[1], c[2])
  \/ \E c \in HonestCalls : UpdateIndex(c[1], c[2])
  \/ LoadIndex
  \/ \E c \in HonestCalls, written \in {1, 2} : CrashInCreate(c[1], c[2], written)
  \/ \E c \in HonestCalls, written \in {1, 2} : CrashInUpdate(c[1], c[2], written)

\* the index operations over a provider that returns one vector per text, with
\* processes that die between two writes of save_index and are restarted
SpecCrash == Init /\ [][NextCrash]_vars

\* ---- the persisted index, as load_index returns it ------------------------
AllExist == Exists(faissFile) /\ Exists(jsonFile) /\ Exists(npyFile)
NoneExists == ~Exists(faissFile) /\ ~Exists(jsonFile) /\ ~Exists(npyFile)
Stored == LoadOutcome(faissFile, jsonFile, npyFile, "RuntimeError")
StoredNext == LoadOutcome(faissFile', jsonFile', npyFile', "RuntimeError")


\* C1: after a completed create_faiss_index or update_index the persisted
\* total_chunks equals the length of the chunks list and the number of rows of
\* the embeddings array and of the similarity index, whatever batch the
\* provider returned.
C1_TotalChunksEqualsRows ==
  (ret.op \in Mutating /\ ret.err = "none") =>
     /\ Stored.meta.total_chunks = Len(Stored.meta.chunks)
     /\ Stored.meta.total_chunks = Len(Stored.emb)
     /\ Stored.meta.total_chunks = Len(Stored.index.xb)

\* C2: a search with k larger than the number n of stored vectors returns
\* exactly n results.
C2_SearchReturnsAtMostStored ==
  (ret.op = "search" /\ ret.err = "none" /\ ret.k > Len(Stored.index.xb)) =>
     Len(ret.value) = Len(Stored.index.xb)

\* the provider answered the query with a vector of the index's dimension
QueryAccepted ==
  /\ ret.op = "search" /\ AllExist
  /\ ret.query # <<>> /\ Len(ret.query[1]) = Stored.index.d

\* C3: a search on an index that holds zero chunks returns the empty list and
\* does not end in an error.
C3_SearchOnEmptyIndexReturnsNothing ==
  (QueryAccepted /\ Len(Stored.meta.chunks) = 0) =>
     (ret.err = "none" /\ ret.value = <<>>)

\* C9: a search on a non-empty index returns its results by non-decreasing
\* distance with ranks 1, 2, ..., every result carries the id and text of the
\* chunk at a stored row that lies at the reported distance from the query, and
\* of two results at the same distance the one with the lower chunk id comes
\* first.
C9_SearchOrderedWithLowerIdFirst ==
  (QueryAccepted /\ ret.err = "none" /\ Len(Stored.meta.chunks) > 0) =>
     /\ \A p \in 1..Len(ret.value) : ret.value[p].rank = p
     /\ \A p \in 1..(Len(ret.value) - 1) :
          /\ ret.value[p].distance <= ret.value[p + 1].distance
          /\ ret.value[p].distance = ret.value[p + 1].distance
               => ret.value[p].chunk_id < ret.value[p + 1].chunk_id
     /\ \A p \in 1..Len(ret.value) :
          \E i \in 1..Len(Stored.index.xb) :
            /\ i <= Len(Stored.meta.chunks)
            /\ ret.value[p].chunk_id = Stored.meta.chunks[i].id
            /\ ret.value[p].text = Stored.meta.chunks[i].text
            /\ ret.value[p].distance = L2sqr(ret.query[1], Stored.index.xb[i])

\* ---- claims about update_index, save_index and load_index -----------------
UpdateStep == ret'.op \in {"update", "update_created"}

StoredDim == Stored.index.d

\* C7: update_index with new vectors whose length differs from the dimension of
\* the existing index ends in an error and leaves the three artifacts as they
\* were.
C7_DimensionMismatchLeavesIndexUnchanged ==
  [][\A texts \in TextLists, reply \in Replies :
       (/\ UpdateStep /\ AllExist
        /\ reply.status = "ok" /\ Len(reply.embeddings) > 0
        /\ Len(reply.embeddings[1]) # StoredDim
        /\ UpdateIndex(texts, reply))
       => (ret'.err # "none" /\ UNCHANGED files)]_vars

C7_Witness ==
  /\ ret.op = "update" /\ ret.err # "none" /\ AllExist
  /\ Len(ret.shape) = 2 /\ ret.shape[2] # StoredDim
  /\ Len(Stored.emb) > 1

\* C8: a completed update_index keeps every chunk and every vector row that
\* existed before at its position, and the new chunks follow at positions
\* old_total .. old_total + batch - 1 in the order of new_texts.
C8_UpdateAppendsOnly ==
  [][\A texts \in TextLists, reply \in Replies :
       (UpdateStep /\ ret'.err = "none" /\ AllExist /\ UpdateIndex(texts, reply))
       => LET old == Stored
              new == StoredNext
              old_total == old.meta.total_chunks
          IN /\ \A i \in 1..Len(old.meta.chunks) : new.meta.chunks[i] = old.meta.chunks[i]
             /\ \A i \in 1..Len(old.emb) :
                  new.emb[i] = old.emb[i] /\ new.index.xb[i] = old.index.xb[i]
             /\ Len(new.meta.chunks) = old_total + Len(texts)
             /\ \A j \in 1..Len(texts) :
                  /\ new.meta.chunks[old_total + j].text = texts[j]
                  /\ new.meta.chunks[old_total + j].id = old_total + j - 1
                  /\ new.meta.chunks[old_total + j].embedding_index = old_total + j - 1]_vars

C8_Witness ==
  /\ ret.op = "update" /\ ret.err = "none"
  /\ Len(Stored.meta.chunks) = MaxRows /\ Len(Stored.emb) = MaxRows
  /\ Stored.meta.chunks[MaxRows].text = Text(2)

\* C10: a load_index right after a completed save_index returns the vector
\* rows, the chunk texts and the chunk ids that were saved, in the same order.
C10_LoadAfterSaveRoundTrip ==
  [][(ret.op \in Mutating /\ ret.err = "none" /\ ret'.op = "load") =>
       /\ ret'.err = "none"
       /\ ret'.value.emb = ret.value.emb
       /\ ret'.value.index.xb = ret.value.index.xb
       /\ Len(ret'.value.meta.chunks) = Len(ret.value.meta.chunks)
       /\ \A i \in 1..Len(ret.value.meta.chunks) :
            /\ ret'.value.meta.chunks[i].id = ret.value.meta.chunks[i].id
            /\ ret'.value.meta.chunks[i].text = ret.value.meta.chunks[i].text]_vars

C10_Witness ==
  /\ ret.op = "load" /\ ret.err = "none"
  /\ Len(ret.value.emb) = MaxRows /\ Len(ret.value.meta.chunks) > 1

\* C5: when a crash inside save_index has left a similarity index whose row
\* count differs from the total_chunks of the metadata, the next load_index
\* fails instead of returning the artifacts.
C5_LoadAfterInterruptedSaveFails ==
  [][(/\ ret.op = "crash" /\ ret'.op = "load" /\ AllExist
      /\ Len(Stored.index.xb) # Stored.meta.total_chunks)
     => ret'.err # "none"]_vars

\* C4: a load_index or search that runs while update_index is saving reads the
\* three artifacts of one saved version: the rows of the similarity index are
\* the rows of the embeddings array, there is one chunk per row, and every
\* position the similarity index returns is a position of the chunks list.
C4_ReaderSeesOneVersion ==
  /\ (ret.op = "load" /\ ret.err = "none") =>
        /\ ret.value.index.xb = ret.value.emb
        /\ Len(ret.value.meta.chunks) = Len(ret.value.emb)
  /\ (ret.op = "search" /\ ret.query # <<>>) => ret.err # "IndexError"

\* ---- claims about the dimension, the chunk ids and the provider ------------
\* the dimensions of a loaded index agree: every row of the embeddings array
\* and of the similarity index has the index's d components, and so says the
\* "embedding_dim" key where the metadata has one
DimsAgree(stored) ==
  /\ \A i \in 1..Len(stored.emb) : Len(stored.emb[i]) = stored.index.d
  /\ \A i \in 1..Len(stored.index.xb) : Len(stored.index.xb[i]) = stored.index.d
  /\ \A i \in 1..Len(stored.meta.embedding_dim) : stored.meta.embedding_dim[i] = stored.index.d

\* C11: no update_index on an existing index changes the dimension of the
\* persisted similarity index or the dimension recorded in the metadata, and
\* in every persisted state the two agree with the row length of the persisted
\* embeddings.
C11_DimensionFixedAtCreation ==
  [][/\ AllExist' => DimsAgree(StoredNext)
     /\ (UpdateStep /\ AllExist) =>
          /\ AllExist'
          /\ StoredNext.index.d = Stored.index.d
          /\ StoredNext.meta.embedding_dim = Stored.meta.embedding_dim]_vars

C11_Witness ==
  /\ ret.op = "update" /\ ret.err = "none" /\ provider = "openai"
  /\ Stored.index.d = 2 /\ Stored.meta.embedding_dim = <<2>>
  /\ Len(Stored.emb) = MaxRows

\* C12: create_faiss_index on an empty list of texts, for which the provider
\* returns no vector, does not end in an error and persists an index with
\* total_chunks = 0, no chunk and no row, which load_index then returns.
C12_EmptyCreateIsValid ==
  [][\A reply \in Replies :
       (/\ ret'.op = "create"
        /\ reply.status = "ok" /\ Len(reply.embeddings) = 0
        /\ CreateFaissIndex(<<>>, reply))
       => /\ ret'.err = "none"
          /\ AllExist'
          /\ StoredNext.err = "none"
          /\ StoredNext.meta.total_chunks = 0
          /\ StoredNext.meta.chunks = <<>>
          /\ StoredNext.emb = <<>>]_vars

\* C13: in every persisted metadata the chunk at position i (from 0) has id i
\* and embedding_index i.
C13_ChunkIdsDense ==
  AllExist =>
    \A i \in 1..Len(Stored.meta.chunks) :
      /\ Stored.meta.chunks[i].id = i - 1
      /\ Stored.meta.chunks[i].embedding_index = i - 1

C13_Witness ==
  /\ ret.op = "update" /\ ret.err = "none"
  /\ Len(Stored.meta.chunks) = MaxRows
  /\ Stored.meta.chunks[MaxRows].embedding_index = MaxRows - 1
  /\ Stored.meta.chunks[MaxRows].text = Text(1)

\* the answer of a provider that fails
ProviderFailure == [status |-> "error", embeddings |-> <<>>]

\* C14: a create_faiss_index, update_index or search whose call to the
\* provider is answered with a failure ends in an error, without a second call
\* to the provider taking its place, and leaves the three artifacts as they
\* were.
C14_ProviderFailureLeavesArtifacts ==
  [][/\ \A texts \in TextLists :
          (/\ ret'.op \in Mutating
           /\ \/ CreateFaissIndex(texts, ProviderFailure)
              \/ UpdateIndex(texts, ProviderFailure))
          => (ret'.err # "none" /\ UNCHANGED files)
     /\ \A k \in 1..MaxK :
          (ret'.op = "search" /\ Search(ProviderFailure, k))
          => (ret'.err # "none" /\ UNCHANGED files)]_vars

C14_Witness ==
  /\ ret.op = "update" /\ ret.err = "Exception" /\ ret.shape = <<0>>
  /\ AllExist /\ Len(Stored.emb) > 1

\* C15: when an update_index that loaded an existing index completes and no
\* other call is in flight, the persisted index holds what the last completed
\* create_faiss_index or update_index left, followed by this call's batch:
\* total_chunks and the number of rows are the ones of that earlier result plus
\* the size of the batch, and its chunks are still there.
C15_UpdatesAreSerialized ==
  [][\A p \in Procs :
       (/\ pc[p] = "save_npy" /\ loc[p].op = "update"
        /\ \A q \in Procs : pc'[q] = "idle"
        /\ ret.op \in Mutating /\ ret.err = "none")
       => LET batch == Len(loc[p].out.saved.meta.chunks) - Len(loc[p].loaded.meta.chunks)
              before == ret.value
          IN /\ StoredNext.meta.total_chunks = before.meta.total_chunks + batch
             /\ Len(StoredNext.emb) = Len(before.emb) + batch
             /\ \A i \in 1..Len(before.meta.chunks) :
                  StoredNext.meta.chunks[i] = before.meta.chunks[i]]_vars

\* ---- claims about Cohere_Chatbot ------------------------------------------
\* the history saved for conversation id
SavedHistory(id) == JsonLoadConversation(conversations[id][1]).history

\* the system message, then user and assistant messages in turn
Alternating(hist) ==
  /\ hist[1] = SystemMessage
  /\ \A i \in 2..Len(hist) :
       hist[i].role = IF i % 2 = 0 THEN "user" ELSE "assistant"

\* C16: whenever an operation of the chatbot has returned or raised, the
\* history is the system message followed by user and assistant messages in
\* turn, and the file of the current conversation holds exactly that history.
C16_HistoryAlternatesAndIsSaved ==
  /\ Alternating(history)
  /\ Exists(conversations[conversation_id])
  /\ Len(SavedHistory(conversation_id)) = Len(history)
  /\ SavedHistory(conversation_id) = history

\* C17: start_new_conversation leaves the single system message as history
\* under an id that had no file, and changes the file of no earlier
\* conversation; a file changes only when a __call__ of its conversation
\* completes, to the history of that moment; and load_conversation of an id
\* that has a file makes that id current and its saved history the history.
C17_StartNewKeepsEarlierConversations ==
  [][/\ chatRet'.op = "start_new" =>
          /\ history' = <<SystemMessage>>
          /\ ~Exists(conversations[conversation_id'])
          /\ \A id \in ConversationIds \ {conversation_id'} :
               conversations'[id] = conversations[id]
     /\ \A id \in ConversationIds :
          (Exists(conversations[id]) /\ conversations'[id] # conversations[id]) =>
             /\ chatRet'.op = "call" /\ chatRet'.err = "none"
             /\ id = conversation_id /\ id = conversation_id'
             /\ Len(SavedHistory(id)') = Len(history') /\ SavedHistory(id)' = history'
     /\ (chatRet'.op = "load" /\ Exists(conversations[chatRet'.value])) =>
          /\ chatRet'.err = "none"
          /\ conversation_id' = chatRet'.value
          /\ Len(history') = Len(SavedHistory(conversation_id'))
          /\ history' = SavedHistory(conversation_id')]_vars

C17_Witness ==
  /\ chatRet.op = "load" /\ chatRet.err = "none"
  /\ conversation_id = 1 /\ Len(history) >= 3
  /\ Exists(conversations[2]) /\ Len(SavedHistory(2)) >= 3

====
